---- MODULE Spec2Model ----
(***************************************************************************)
(* Connection-descriptor construction of the Snowflake Grafana datasource: *)
(* getConfig, queryTagFromContext, getConnectionString, QueryData and the  *)
(* health-check validator createAndValidationConnectionString.             *)
(*                                                                         *)
(* Go strings are modelled as sequences of one-character strings, so that  *)
(* escaping, sorting and concatenation are computed character by character.*)
(***************************************************************************)
EXTENDS Integers, Sequences, FiniteSets, TLC

(* ------------------------------------------------------------------ *)
(* Bounds of the model                                                  *)
(* ------------------------------------------------------------------ *)

\* Longest string drawn for the field a request family varies.
MaxLen == 2

\* Organization ids range over -1 .. MaxOrgId.
MaxOrgId == 11

\* Number of simultaneous calls in the concurrent specification.
NumCalls == 2

(* ------------------------------------------------------------------ *)
(* Characters and bytes                                                 *)
(* ------------------------------------------------------------------ *)

LowerSeq == <<"a","b","c","d","e","f","g","h","i","j","k","l","m",
              "n","o","p","q","r","s","t","u","v","w","x","y","z">>

UpperSeq == <<"A","B","C","D","E","F","G","H","I","J","K","L","M",
              "N","O","P","Q","R","S","T","U","V","W","X","Y","Z">>

DigitSeq == <<"0","1","2","3","4","5","6","7","8","9">>

HexSeq == <<"0","1","2","3","4","5","6","7","8","9","A","B","C","D","E","F">>

Range(s) == {s[i] : i \in 1..Len(s)}

LowerSet == Range(LowerSeq)
UpperSet == Range(UpperSeq)
DigitSet == Range(DigitSeq)

IndexOf(s, c) == CHOOSE i \in 1..Len(s) : s[i] = c

\* The byte value of a character (ASCII).
Code(c) ==
  IF c \in LowerSet THEN 96 + IndexOf(LowerSeq, c)
  ELSE IF c \in UpperSet THEN 64 + IndexOf(UpperSeq, c)
  ELSE IF c \in DigitSet THEN 47 + IndexOf(DigitSeq, c)
  ELSE CASE c = " "  -> 32
         [] c = "\"" -> 34
         [] c = "$"  -> 36
         [] c = "%"  -> 37
         [] c = "&"  -> 38
         [] c = "+"  -> 43
         [] c = ","  -> 44
         [] c = "-"  -> 45
         [] c = "."  -> 46
         [] c = "/"  -> 47
         [] c = ":"  -> 58
         [] c = ";"  -> 59
         [] c = "="  -> 61
         [] c = "?"  -> 63
         [] c = "@"  -> 64
         [] c = "\\" -> 92
         [] c = "_"  -> 95
         [] c = "{"  -> 123
         [] c = "}"  -> 125
         [] c = "~"  -> 126

\* Concatenation of a sequence of strings (halving, to keep the evaluation shallow).
RECURSIVE Concat(_)
Concat(ss) ==
  IF Len(ss) = 0 THEN <<>>
  ELSE IF Len(ss) = 1 THEN ss[1]
  ELSE LET h == Len(ss) \div 2
       IN Concat(SubSeq(ss, 1, h)) \o Concat(SubSeq(ss, h + 1, Len(ss)))

\* strings.Join
Join(ss, sep) == Concat([i \in 1..Len(ss) |-> IF i = 1 THEN ss[i] ELSE sep \o ss[i]])

(* ------------------------------------------------------------------ *)
(* net/url escaping, as used by getConnectionString                     *)
(* ------------------------------------------------------------------ *)

AlnumSet == LowerSet \cup UpperSet \cup DigitSet

IsAlnum(c) == c \in AlnumSet

IsMark(c) == c \in {"-", "_", ".", "~"}

IsReserved(c) == c \in {"$", "&", "+", ",", "/", ":", ";", "=", "?", "@"}

\* "%" followed by the two upper-case hex digits of the byte.
PercentHex(c) == <<"%", HexSeq[(Code(c) \div 16) + 1], HexSeq[(Code(c) % 16) + 1]>>

\* shouldEscape(c, encodeQueryComponent): everything but unreserved characters.
shouldEscapeQuery(c) == ~(IsAlnum(c) \/ IsMark(c))

\* The userinfo escaper, mutated into the form escaper's character class.
shouldEscapeUserAsQuery(c) == ~(IsAlnum(c) \/ IsMark(c))

\* The userinfo escaper, mutated: '@' is no longer escaped.
shouldEscapeUserNoAt(c) ==
  IF IsAlnum(c) \/ IsMark(c) THEN FALSE
  ELSE IF IsReserved(c) THEN c \in {"/", "?", ":"}
  ELSE TRUE

\* shouldEscape(c, encodeUserPassword): of the reserved characters only
\* '@', '/', '?' and ':' are escaped.
shouldEscapeUser(c) ==
  IF IsAlnum(c) \/ IsMark(c) THEN FALSE
  ELSE IF IsReserved(c) THEN c \in {"@", "/", "?", ":"}
  ELSE TRUE

\* url.QueryEscape: a space becomes '+'.
QueryEscape(s) ==
  Concat([i \in 1..Len(s) |->
            IF s[i] = " " THEN <<"+">>
            ELSE IF shouldEscapeQuery(s[i]) THEN PercentHex(s[i])
            ELSE <<s[i]>>])

\* escape(s, encodeUserPassword): a space becomes %20.
escapeUserPassword(s) ==
  Concat([i \in 1..Len(s) |->
            IF shouldEscapeUser(s[i]) THEN PercentHex(s[i]) ELSE <<s[i]>>])

\* url.User(username)
User(username) == [username |-> username, password |-> <<>>, passwordSet |-> FALSE]

\* url.UserPassword(username, password)
UserPassword(username, password) ==
  [username |-> username, password |-> password, passwordSet |-> TRUE]

\* (*Userinfo).String
UserinfoString(u) ==
  escapeUserPassword(u.username)
    \o (IF u.passwordSet THEN <<":">> \o escapeUserPassword(u.password) ELSE <<>>)

(* ------------------------------------------------------------------ *)
(* url.Values                                                          *)
(* ------------------------------------------------------------------ *)

kRole       == <<"r","o","l","e">>
kWarehouse  == <<"w","a","r","e","h","o","u","s","e">>
kDatabase   == <<"d","a","t","a","b","a","s","e">>
kSchema     == <<"s","c","h","e","m","a">>
kQueryTag   == <<"Q","U","E","R","Y","_","T","A","G">>
kAuth       == <<"a","u","t","h","e","n","t","i","c","a","t","o","r">>
kPrivateKey == <<"p","r","i","v","a","t","e","K","e","y">>
sJWT        == <<"S","N","O","W","F","L","A","K","E","_","J","W","T">>

\* url.Values{}: a list of (key, values) entries in insertion order.
EmptyValues == <<>>

\* Values.Add: append the value to the key's list.
ValuesAdd(v, key, value) ==
  IF \E i \in 1..Len(v) : v[i].key = key
  THEN [i \in 1..Len(v) |->
          IF v[i].key = key THEN [v[i] EXCEPT !.vals = Append(@, value)] ELSE v[i]]
  ELSE Append(v, [key |-> key, vals |-> <<value>>])

\* Byte-wise string order (Go's < on strings).
RECURSIVE StrLess(_, _)
StrLess(a, b) ==
  IF b = <<>> THEN FALSE
  ELSE IF a = <<>> THEN TRUE
  ELSE IF Code(Head(a)) # Code(Head(b)) THEN Code(Head(a)) < Code(Head(b))
  ELSE StrLess(Tail(a), Tail(b))

\* sort.Strings on the keys of the map.
RECURSIVE SortedKeys(_)
SortedKeys(ks) ==
  IF ks = {} THEN <<>>
  ELSE LET m == CHOOSE k \in ks : \A o \in ks \ {k} : StrLess(k, o)
       IN <<m>> \o SortedKeys(ks \ {m})

\* Values.Encode, mutated: entries are emitted in insertion order.
EncodeUnsorted(v) ==
  Join([i \in 1..Len(v) |->
          Join([j \in 1..Len(v[i].vals) |->
                  QueryEscape(v[i].key) \o <<"=">> \o QueryEscape(v[i].vals[j])],
               <<"&">>)],
       <<"&">>)

\* Values.Encode: "key=value" pairs, both form-escaped, sorted by key.
Encode(v) ==
  LET keys  == SortedKeys({v[i].key : i \in 1..Len(v)})
      valsOf(k) == (CHOOSE i \in 1..Len(v) : v[i].key = k)
  IN Join([n \in 1..Len(keys) |->
             LET e == v[valsOf(keys[n])]
             IN Join([j \in 1..Len(e.vals) |->
                        QueryEscape(e.key) \o <<"=">> \o QueryEscape(e.vals[j])],
                     <<"&">>)],
          <<"&">>)

(* ------------------------------------------------------------------ *)
(* getConfig                                                           *)
(* ------------------------------------------------------------------ *)

\* The JSON keys of pluginConfig's fields.
ConfigKeys == {"account", "username", "role", "warehouse", "database", "schema",
               "extraConfig"}

\* The zero value of pluginConfig.
ZeroConfig ==
  [Account |-> <<>>, Username |-> <<>>, Role |-> <<>>, Warehouse |-> <<>>,
   Database |-> <<>>, Schema |-> <<>>, ExtraConfig |-> <<>>]

\* A JSON document held in JSONData: kind "nil" is absent or empty bytes, "truncated"
\* is the text "{", "garbage" is the text "x", and "object" is a well-formed object
\* whose string members are given by fields (other keys are unknown to pluginConfig).
MemberOr(doc, key) == IF key \in DOMAIN doc.fields THEN doc.fields[key] ELSE <<>>

\* json.Unmarshal into pluginConfig: its error text, "" for none.
UnmarshalError(doc) ==
  CASE doc.kind \in {"nil", "truncated"} -> "unexpected end of JSON input"
    [] doc.kind = "garbage" -> "invalid character 'x' looking for beginning of value"
    [] OTHER -> ""

\* getConfig, mutated: the decode error is dropped.
getConfigNoError(settings) ==
  [config |->
     IF UnmarshalError(settings.JSONData) # "" THEN ZeroConfig
     ELSE [Account     |-> MemberOr(settings.JSONData, "account"),
           Username    |-> MemberOr(settings.JSONData, "username"),
           Role        |-> MemberOr(settings.JSONData, "role"),
           Warehouse   |-> MemberOr(settings.JSONData, "warehouse"),
           Database    |-> MemberOr(settings.JSONData, "database"),
           Schema      |-> MemberOr(settings.JSONData, "schema"),
           ExtraConfig |-> MemberOr(settings.JSONData, "extraConfig")],
   err |-> ""]

\* getConfig: decode settings.JSONData; members that are absent stay empty.
getConfig(settings) ==
  LET err == UnmarshalError(settings.JSONData)
  IN IF err # ""
     THEN [config |-> ZeroConfig, err |-> err]
     ELSE [config |->
             [Account     |-> MemberOr(settings.JSONData, "account"),
              Username    |-> MemberOr(settings.JSONData, "username"),
              Role        |-> MemberOr(settings.JSONData, "role"),
              Warehouse   |-> MemberOr(settings.JSONData, "warehouse"),
              Database    |-> MemberOr(settings.JSONData, "database"),
              Schema      |-> MemberOr(settings.JSONData, "schema"),
              ExtraConfig |-> MemberOr(settings.JSONData, "extraConfig")],
           err |-> ""]

(* ------------------------------------------------------------------ *)
(* queryTagFromContext                                                 *)
(* ------------------------------------------------------------------ *)

sGrafana == <<"G","r","a","f","a","n","a">>

\* backend.User{Role: u.Role}
UserWithRole(role) == [Login |-> <<>>, Name |-> <<>>, Email |-> <<>>, Role |-> role]

\* The tag record, mutated: a user counts as anonymous when the name alone is empty.
queryTagDataNameOnly(pc) ==
  IF pc.User # <<>>
  THEN LET u == pc.User[1]
       IN [Job |-> sGrafana, OrgId |-> pc.OrgID,
           UserLogin |-> u.Login, UserName |-> u.Name, UserEmail |-> u.Email,
           UserRole |-> u.Role, IsBackend |-> FALSE,
           IsAnonymous |-> (u.Name = <<>>)]
  ELSE [Job |-> sGrafana, OrgId |-> pc.OrgID,
        UserLogin |-> <<>>, UserName |-> <<>>, UserEmail |-> <<>>,
        UserRole |-> <<>>, IsBackend |-> TRUE, IsAnonymous |-> FALSE]

\* The queryTagData record built by queryTagFromContext. pc.User is a pointer:
\* <<>> is nil, <<u>> points to u.
queryTagData(pc) ==
  IF pc.User # <<>>
  THEN LET u == pc.User[1]
       IN [Job |-> sGrafana, OrgId |-> pc.OrgID,
           UserLogin |-> u.Login, UserName |-> u.Name, UserEmail |-> u.Email,
           UserRole |-> u.Role, IsBackend |-> FALSE,
           IsAnonymous |-> (UserWithRole(u.Role) = u)]
  ELSE [Job |-> sGrafana, OrgId |-> pc.OrgID,
        UserLogin |-> <<>>, UserName |-> <<>>, UserEmail |-> <<>>,
        UserRole |-> <<>>, IsBackend |-> TRUE, IsAnonymous |-> FALSE]

\* strconv's decimal rendering of an int64.
RECURSIVE Digits(_)
Digits(n) == IF n < 10 THEN <<DigitSeq[n + 1]>>
             ELSE Digits(n \div 10) \o <<DigitSeq[(n % 10) + 1]>>

Itoa(n) == IF n < 0 THEN <<"-">> \o Digits(-n) ELSE Digits(n)

\* encoding/json's string encoder (HTML escaping on).
JSONChars(s) ==
  Concat([i \in 1..Len(s) |->
            CASE s[i] = "\"" -> <<"\\", "\"">>
              [] s[i] = "\\" -> <<"\\", "\\">>
              [] s[i] = "&"  -> <<"\\", "u", "0", "0", "2", "6">>
              [] OTHER       -> <<s[i]>>])

JSONString(s) == <<"\"">> \o JSONChars(s) \o <<"\"">>

jJob         == <<"j","o","b">>
jOrgId       == <<"o","r","g","_","i","d">>
jUserLogin   == <<"u","s","e","r","_","l","o","g","i","n">>
jUserName    == <<"u","s","e","r","_","n","a","m","e">>
jUserEmail   == <<"u","s","e","r","_","e","m","a","i","l">>
jUserRole    == <<"u","s","e","r","_","r","o","l","e">>
jIsBackend   == <<"i","s","_","b","a","c","k","e","n","d">>
jIsAnonymous == <<"i","s","_","a","n","o","n","y","m","o","u","s">>
sTrue        == <<"t","r","u","e">>

\* One member of the object, or nothing when omitempty drops it.
Member(name, value) == <<JSONString(name) \o <<":">> \o value>>

\* json.Marshal(qtd): members in field order, empty ones omitted.
MarshalQueryTag(qtd) ==
  <<"{">> \o
  Join(Member(jJob, JSONString(qtd.Job))
       \o Member(jOrgId, Itoa(qtd.OrgId))
       \o (IF qtd.UserLogin # <<>> THEN Member(jUserLogin, JSONString(qtd.UserLogin)) ELSE <<>>)
       \o (IF qtd.UserName  # <<>> THEN Member(jUserName, JSONString(qtd.UserName)) ELSE <<>>)
       \o (IF qtd.UserEmail # <<>> THEN Member(jUserEmail, JSONString(qtd.UserEmail)) ELSE <<>>)
       \o (IF qtd.UserRole  # <<>> THEN Member(jUserRole, JSONString(qtd.UserRole)) ELSE <<>>)
       \o (IF qtd.IsBackend THEN Member(jIsBackend, sTrue) ELSE <<>>)
       \o (IF qtd.IsAnonymous THEN Member(jIsAnonymous, sTrue) ELSE <<>>),
       <<",">>)
  \o <<"}">>

\* queryTagFromContext, mutated: the tag comes back empty.
queryTagFromContextEmpty(pc) == [tag |-> <<>>, err |-> ""]

\* queryTagFromContext: the tag string and the marshalling error ("" for nil;
\* json.Marshal cannot fail on a struct of strings, an int64 and booleans).
queryTagFromContext(pc) == [tag |-> MarshalQueryTag(queryTagData(pc)), err |-> ""]

(* ------------------------------------------------------------------ *)
(* getConnectionString                                                 *)
(* ------------------------------------------------------------------ *)

\* The url.Values built by getConnectionString.
ConnectionParams(config, privateKey, queryTag) ==
  LET p4 == ValuesAdd(ValuesAdd(ValuesAdd(ValuesAdd(EmptyValues,
                kRole, config.Role), kWarehouse, config.Warehouse),
                kDatabase, config.Database), kSchema, config.Schema)
      p5 == IF queryTag # <<>> THEN ValuesAdd(p4, kQueryTag, queryTag) ELSE p4
  IN IF Len(privateKey) # 0
     THEN ValuesAdd(ValuesAdd(p5, kAuth, sJWT), kPrivateKey, privateKey)
     ELSE p5

\* The credential prefix, mutated: the password is kept beside a private key.
userPassAlwaysPassword(config, password, privateKey) ==
  UserinfoString(UserPassword(config.Username, password))

\* The credential prefix userPass.
userPass(config, password, privateKey) ==
  IF Len(privateKey) # 0
  THEN UserinfoString(User(config.Username))
  ELSE UserinfoString(UserPassword(config.Username, password))

\* getConnectionString, mutated: extraConfig is form-escaped.
getConnectionStringEscapedExtra(config, password, privateKey, queryTag) ==
  userPass(config, password, privateKey) \o <<"@">> \o config.Account \o <<"?">>
    \o Encode(ConnectionParams(config, privateKey, queryTag))
    \o <<"&">> \o QueryEscape(config.ExtraConfig)

\* getConnectionString: fmt.Sprintf("%s@%s?%s&%s", ...).
getConnectionString(config, password, privateKey, queryTag) ==
  userPass(config, password, privateKey) \o <<"@">> \o config.Account \o <<"?">>
    \o Encode(ConnectionParams(config, privateKey, queryTag))
    \o <<"&">> \o config.ExtraConfig

(* ------------------------------------------------------------------ *)
(* Requests                                                            *)
(* ------------------------------------------------------------------ *)

\* DecryptedSecureJSONData[key]: a missing key reads as the empty string.
Secret(req, key) ==
  LET m == req.PluginContext.DataSourceInstanceSettings.DecryptedSecureJSONData
  IN IF key \in DOMAIN m THEN m[key] ELSE <<>>

\* A nil pointer and a nil error.
Nil == <<>>
NoError == ""

(* ------------------------------------------------------------------ *)
(* createAndValidationConnectionString (the health-check validator)    *)
(* ------------------------------------------------------------------ *)

HealthStatusError == "ERROR"

sValidateDefaultParameters ==
  <<"v","a","l","i","d","a","t","e","D","e","f","a","u","l","t",
    "P","a","r","a","m","e","t","e","r","s","=","t","r","u","e">>

\* createAndValidationConnectionString: the checks in order, the first failure
\* returned as a health result; on success the descriptor, closed with
\* validateDefaultParameters=true.
createAndValidationConnectionString(req) ==
  LET password   == Secret(req, "password")
      privateKey == Secret(req, "privateKey")
      c == getConfig(req.PluginContext.DataSourceInstanceSettings)
      t == queryTagFromContext(req.PluginContext)
      failure(msg) == [conn |-> <<>>, err |-> NoError,
                       result |-> <<[Status |-> HealthStatusError, Message |-> msg]>>]
  IN IF password = <<>> /\ privateKey = <<>>
       THEN failure("Password or private key are required.")
     ELSE IF c.err # NoError THEN failure("Error getting config: " \o c.err)
     ELSE IF Len(c.config.Account) = 0 THEN failure("Account not provided")
     ELSE IF Len(c.config.Username) = 0 THEN failure("Username not provided")
     ELSE IF t.err # NoError THEN [conn |-> <<>>, err |-> t.err, result |-> Nil]
     ELSE [conn |-> getConnectionString(c.config, password, privateKey, t.tag)
                     \o (IF c.config.ExtraConfig # <<>> THEN <<"&">> ELSE <<>>)
                     \o sValidateDefaultParameters,
           err |-> NoError, result |-> Nil]

(* ------------------------------------------------------------------ *)
(* QueryData                                                           *)
(* ------------------------------------------------------------------ *)

\* td.query is called once per query; the response kept under the query's RefID is
\* represented by the arguments of that call.
RECURSIVE QueryLoop(_, _, _, _, _, _)
QueryLoop(responses, queries, config, password, privateKey, queryTag) ==
  IF queries = <<>> THEN responses
  ELSE LET q == Head(queries)
           r == [q |-> q, config |-> config, password |-> password,
                 privateKey |-> privateKey, queryTag |-> queryTag]
           next == [id \in DOMAIN responses \cup {q.RefID} |->
                      IF id = q.RefID THEN r ELSE responses[id]]
       IN QueryLoop(next, Tail(queries), config, password, privateKey, queryTag)

\* backend.NewQueryDataResponse(): no responses yet.
NewQueryDataResponse == [id \in {} |-> {}]

\* QueryData, mutated: a decode failure is swallowed and the queries run on the
\* zero configuration.
QueryDataSwallow(req) ==
  LET password   == Secret(req, "password")
      privateKey == Secret(req, "privateKey")
      c == getConfig(req.PluginContext.DataSourceInstanceSettings)
      t == queryTagFromContext(req.PluginContext)
  IN [Responses |-> QueryLoop(NewQueryDataResponse, req.Queries, c.config,
                              password, privateKey, t.tag),
      err |-> NoError, logged |-> <<>>]

\* QueryData: the response, the error returned to the caller and the lines
\* written to the logger.
QueryData(req) ==
  LET password   == Secret(req, "password")
      privateKey == Secret(req, "privateKey")
      c == getConfig(req.PluginContext.DataSourceInstanceSettings)
      t == queryTagFromContext(req.PluginContext)
  IN IF c.err # NoError
     THEN [Responses |-> NewQueryDataResponse, err |-> c.err,
           logged |-> <<"Could not get config for plugin">>]
     ELSE IF t.err # NoError
     THEN [Responses |-> NewQueryDataResponse, err |-> t.err, logged |-> <<>>]
     ELSE [Responses |-> QueryLoop(NewQueryDataResponse, req.Queries, c.config,
                                   password, privateKey, t.tag),
           err |-> NoError, logged |-> <<>>]

(* ------------------------------------------------------------------ *)
(* The requests the specifications draw from                           *)
(* ------------------------------------------------------------------ *)

\* Characters of the strings a family varies: an unreserved character, the
\* reserved ones the two escapers treat differently, a space and a percent sign.
Alphabet == {"a", "@", "/", "$", "&", ":", "?", "=", " ", "%"}

\* All strings over Alphabet of length at most n.
RECURSIVE StringsUpTo(_)
StringsUpTo(n) ==
  IF n = 0 THEN {<<>>}
  ELSE LET shorter == StringsUpTo(n - 1)
       IN shorter \cup {Append(s, c) : s \in shorter, c \in Alphabet}

Strings == StringsUpTo(MaxLen)

sTest    == <<"t","e","s","t">>
sUser    == <<"u","s","e","r">>
sPass    == <<"p","a","s","s">>
sKey     == <<"k","e","y">>
sMyTag   == <<"m","y","t","a","g">>
sConf    == <<"c","o","n","f","i","g","=","c","o","n","f">>
sAtRole  == <<"r","o","@","l","e">>
sAccount == <<"a","c","c","@","o","u","n","t">>
sAdmin   == <<"A","d","m","i","n">>
sName    == <<"F","i","r","s","t"," ","L","a","s","t">>
sLogin   == <<"a","u","s","e","r">>
sEmail   == <<"s","@","e",".","c","o","m">>

EmptyMap == [k \in {} |-> <<>>]

ObjectDoc(fields) == [kind |-> "object", fields |-> fields]

BadDocs == {[kind |-> k, fields |-> EmptyMap] : k \in {"nil", "truncated", "garbage"}}

BaseFields == [k \in {"account", "username"} |->
                 IF k = "account" THEN sTest ELSE sUser]

\* The base document with one member set.
WithMember(key, value) ==
  [k \in DOMAIN BaseFields \cup {key} |-> IF k = key THEN value ELSE BaseFields[k]]

FullFields ==
  [k \in ConfigKeys \cup {"other"} |->
     CASE k = "account"     -> sAccount
       [] k = "username"    -> sUser
       [] k = "role"        -> sAtRole
       [] k = "warehouse"   -> <<"w", " ", "h">>
       [] k = "database"    -> <<"d", "&", "b">>
       [] k = "schema"      -> <<"s", "=", "c">>
       [] k = "extraConfig" -> sConf
       [] OTHER             -> sKey]

GoodDocs ==
  {ObjectDoc(EmptyMap),
   ObjectDoc([k \in {"account"} |-> sTest]),
   ObjectDoc([k \in {"username"} |-> sUser]),
   ObjectDoc(BaseFields),
   ObjectDoc(WithMember("extraConfig", sConf)),
   ObjectDoc(FullFields)}

SecureMaps ==
  {EmptyMap,
   [k \in {"password"} |-> <<>>],
   [k \in {"password"} |-> sPass],
   [k \in {"privateKey"} |-> sKey],
   [k \in {"password", "privateKey"} |-> IF k = "password" THEN sPass ELSE sKey],
   [k \in {"password", "privateKey"} |-> IF k = "password" THEN <<>> ELSE sKey]}

NamedUser == [Login |-> sLogin, Name |-> sName, Email |-> sEmail, Role |-> sAdmin]

\* nil, or a pointer to a backend.User.
Users ==
  {Nil,
   <<UserWithRole(<<>>)>>,
   <<UserWithRole(sAdmin)>>,
   <<NamedUser>>,
   <<[UserWithRole(<<>>) EXCEPT !.Name = sName]>>,
   <<[UserWithRole(sAdmin) EXCEPT !.Login = sLogin]>>,
   <<[UserWithRole(<<>>) EXCEPT !.Email = sEmail]>>}

OrgIds == (-1)..MaxOrgId

QueryLists ==
  {<<>>, <<[RefID |-> "A"]>>, <<[RefID |-> "A"], [RefID |-> "B"]>>,
   <<[RefID |-> "A"], [RefID |-> "A"]>>}

Request(orgId, user, doc, secure, queries) ==
  [PluginContext |->
     [OrgID |-> orgId, User |-> user,
      DataSourceInstanceSettings |->
        [JSONData |-> doc, DecryptedSecureJSONData |-> secure]],
   Queries |-> queries]

PasswordOnly(pw) == [k \in {"password"} |-> pw]

BaseSecure == PasswordOnly(sPass)

BaseQueries == <<[RefID |-> "A"]>>

\* Requests that combine the shapes of every input.
CrossRequests ==
  {Request(o, u, d, m, BaseQueries) :
     o \in {0, 123}, u \in Users, d \in BadDocs \cup GoodDocs, m \in SecureMaps}

\* Every organization id with every identity.
OrgRequests ==
  {Request(o, u, ObjectDoc(BaseFields), BaseSecure, BaseQueries) :
     o \in OrgIds, u \in Users}

\* Every list of queries with several documents.
QueryRequests ==
  {Request(0, Nil, d, BaseSecure, q) :
     d \in {ObjectDoc(BaseFields), ObjectDoc(FullFields),
            [kind |-> "garbage", fields |-> EmptyMap]},
     q \in QueryLists}

\* One configuration member ranging over all strings.
MemberRequests ==
  {Request(0, Nil, ObjectDoc(WithMember(k, s)), m, BaseQueries) :
     k \in {"account", "username", "role", "extraConfig"},
     s \in Strings,
     m \in {BaseSecure}}

\* The user name ranging over all strings, beside a private key.
KeyUserRequests ==
  {Request(0, Nil, ObjectDoc(WithMember("username", s)),
           [k \in {"password", "privateKey"} |-> IF k = "password" THEN sPass ELSE sKey],
           BaseQueries) : s \in Strings}

\* One secret ranging over all strings.
SecretRequests ==
  {Request(0, Nil, ObjectDoc(BaseFields), PasswordOnly(s), BaseQueries) : s \in Strings}
  \cup
  {Request(0, Nil, ObjectDoc(BaseFields),
           [k \in {"password", "privateKey"} |-> IF k = "password" THEN sPass ELSE s],
           BaseQueries) : s \in Strings}

\* One field of the identity ranging over all strings.
IdentityRequests ==
  {Request(1, <<[UserWithRole(<<>>) EXCEPT ![f] = s]>>, ObjectDoc(BaseFields),
           BaseSecure, BaseQueries) :
     f \in {"Name", "Role"}, s \in Strings}

Requests ==
  CrossRequests \cup OrgRequests \cup QueryRequests \cup MemberRequests
    \cup KeyUserRequests \cup SecretRequests \cup IdentityRequests

(* ------------------------------------------------------------------ *)
(* State and actions                                                   *)
(* ------------------------------------------------------------------ *)

VARIABLES
  req,    \* the request handed to the plugin
  op,     \* the entry point that ran last on it ("" before any)
  out,    \* what that entry point returned
  calls,  \* concurrent specification: the calls in flight
  frames, \* concurrent specification: the local variables of each call
  log     \* concurrent specification: the lines written to the logger

vars == <<req, op, out, calls, frames, log>>

\* The fields of out an entry point does not set.
BlankOut ==
  [conn |-> <<>>, result |-> Nil, err |-> NoError, tag |-> <<>>,
   config |-> ZeroConfig, Responses |-> NewQueryDataResponse, logged |-> <<>>,
   queryTag |-> <<>>]

Settings(r) == r.PluginContext.DataSourceInstanceSettings

Init ==
  /\ req \in Requests
  /\ op = ""
  /\ out = BlankOut
  /\ calls = <<>>
  /\ frames = <<>>
  /\ log = <<>>

\* The health check validates the request.
CallValidator ==
  /\ op = ""
  /\ op' = "createAndValidationConnectionString"
  /\ out' = LET r == createAndValidationConnectionString(req)
            IN [BlankOut EXCEPT !.conn = r.conn, !.result = r.result, !.err = r.err]
  /\ UNCHANGED <<req, calls, frames, log>>

\* The host asks for data.
CallQueryData ==
  /\ op = ""
  /\ op' = "QueryData"
  /\ out' = LET r == QueryData(req)
            IN [BlankOut EXCEPT !.Responses = r.Responses, !.err = r.err,
                                !.logged = r.logged]
  /\ UNCHANGED <<req, calls, frames, log>>

\* queryTagFromContext on the request's plugin context.
CallQueryTagFromContext ==
  /\ op = ""
  /\ op' = "queryTagFromContext"
  /\ out' = LET r == queryTagFromContext(req.PluginContext)
            IN [BlankOut EXCEPT !.tag = r.tag, !.err = r.err]
  /\ UNCHANGED <<req, calls, frames, log>>

\* getConfig on the request's settings.
CallGetConfig ==
  /\ op = ""
  /\ op' = "getConfig"
  /\ out' = LET r == getConfig(Settings(req))
            IN [BlankOut EXCEPT !.config = r.config, !.err = r.err]
  /\ UNCHANGED <<req, calls, frames, log>>

\* getConnectionString on the decoded configuration and the request's secrets,
\* with no tag, a fixed tag or the tag of the request's context.
CallGetConnectionString ==
  /\ op = ""
  /\ \E queryTag \in {<<>>, sMyTag, queryTagFromContext(req.PluginContext).tag} :
       /\ op' = "getConnectionString"
       /\ out' = LET c == getConfig(Settings(req)).config
                 IN [BlankOut EXCEPT
                       !.config = c, !.queryTag = queryTag,
                       !.conn = getConnectionString(c, Secret(req, "password"),
                                                    Secret(req, "privateKey"), queryTag)]
  /\ UNCHANGED <<req, calls, frames, log>>

\* The caller takes the result; the plugin is idle again.
Return ==
  /\ op # ""
  /\ op' = ""
  /\ out' = BlankOut
  /\ UNCHANGED <<req, calls, frames, log>>

Next ==
  \/ CallValidator
  \/ CallQueryData
  \/ CallQueryTagFromContext
  \/ CallGetConfig
  \/ CallGetConnectionString
  \/ Return

Spec == Init /\ [][Next]_vars

(* ------------------------------------------------------------------ *)
(* Reading a descriptor back                                           *)
(* ------------------------------------------------------------------ *)

\* The first index of character c in s, 0 when there is none.
FirstIndex(s, c) ==
  IF \E i \in 1..Len(s) : s[i] = c
  THEN CHOOSE i \in 1..Len(s) : s[i] = c /\ \A j \in 1..(i - 1) : s[j] # c
  ELSE 0

\* The first index of c after position p, 0 when there is none.
FirstIndexAfter(s, c, p) ==
  IF \E i \in (p + 1)..Len(s) : s[i] = c
  THEN CHOOSE i \in (p + 1)..Len(s) : s[i] = c /\ \A j \in (p + 1)..(i - 1) : s[j] # c
  ELSE 0

Count(s, c) == Cardinality({i \in 1..Len(s) : s[i] = c})

HasSuffix(s, t) ==
  Len(t) <= Len(s) /\ SubSeq(s, Len(s) - Len(t) + 1, Len(s)) = t

HasPrefix(s, t) == Len(t) <= Len(s) /\ SubSeq(s, 1, Len(t)) = t

Contains(s, t) ==
  \E i \in 0..(Len(s) - Len(t)) : SubSeq(s, i + 1, i + Len(t)) = t

\* The pieces of s between occurrences of the separator character.
SplitOn(s, sep) ==
  LET cuts == {i \in 1..Len(s) : s[i] = sep}
      \* the n-th cut, counting from 1; 0 before the first, Len(s)+1 after the last
      cut(n) == IF n = 0 THEN 0
                ELSE IF n > Cardinality(cuts) THEN Len(s) + 1
                ELSE CHOOSE i \in cuts : Cardinality({j \in cuts : j < i}) = n - 1
  IN [n \in 1..(Cardinality(cuts) + 1) |-> SubSeq(s, cut(n - 1) + 1, cut(n) - 1)]

\* Every character the model writes or reads.
AllChars ==
  AlnumSet \cup {" ", "\"", "$", "%", "&", "+", ",", "-", ".", "/", ":", ";", "=",
                 "?", "@", "\\", "_", "{", "}", "~"}

CharOf(n) == CHOOSE c \in AllChars : Code(c) = n

HexValue(h) == IndexOf(HexSeq, h) - 1

\* Every '%' is followed by two hex digits.
WellEscaped(s) ==
  \A i \in 1..Len(s) :
    s[i] = "%" => /\ i + 2 <= Len(s)
                  /\ s[i + 1] \in Range(HexSeq)
                  /\ s[i + 2] \in Range(HexSeq)

\* Percent-decoding; with plus set, a '+' reads as a space (form decoding).
PercentDecode(s, plus) ==
  Concat([i \in 1..Len(s) |->
            IF s[i] = "%" THEN <<CharOf(16 * HexValue(s[i + 1]) + HexValue(s[i + 2]))>>
            ELSE IF (i > 1 /\ s[i - 1] = "%") \/ (i > 2 /\ s[i - 2] = "%") THEN <<>>
            ELSE IF plus /\ s[i] = "+" THEN <<" ">>
            ELSE <<s[i]>>])

\* The inputs of the call the state records.
ReqPassword   == Secret(req, "password")
ReqPrivateKey == Secret(req, "privateKey")
ReqDoc        == Settings(req).JSONData
ReqAccount    == MemberOr(ReqDoc, "account")
ReqUsername   == MemberOr(ReqDoc, "username")
ReqExtra      == MemberOr(ReqDoc, "extraConfig")

RanGetConnectionString == op = "getConnectionString"
RanValidator == op = "createAndValidationConnectionString"
RanQueryData == op = "QueryData"
RanQueryTag  == op = "queryTagFromContext"

\* The descriptor up to its first '@'.
PrefixOf(conn) == SubSeq(conn, 1, FirstIndex(conn, "@") - 1)

\* The parameter segment of a descriptor returned by getConnectionString: what
\* lies between "<prefix>@<account>?" and "&<extraConfig>".
SegmentOf(conn, account, extra) ==
  SubSeq(conn, FirstIndex(conn, "@") + Len(account) + 2, Len(conn) - Len(extra) - 1)

\* The "key=value" pairs of a parameter segment, as <<key, value>>.
PairsOf(seg) ==
  LET parts == SplitOn(seg, "&")
  IN [n \in 1..Len(parts) |->
        LET e == FirstIndex(parts[n], "=")
        IN <<SubSeq(parts[n], 1, e - 1), SubSeq(parts[n], e + 1, Len(parts[n]))>>]

KeysOf(seg) == LET ps == PairsOf(seg) IN [n \in 1..Len(ps) |-> ps[n][1]]

\* The value of the pair with the given key.
ValueOf(seg, key) ==
  LET ps == PairsOf(seg) IN ps[CHOOSE n \in 1..Len(ps) : ps[n][1] = key][2]

CallSegment == SegmentOf(out.conn, out.config.Account, out.config.ExtraConfig)

(* ------------------------------------------------------------------ *)
(* C6: the three shapes of the audit tag                               *)
(* ------------------------------------------------------------------ *)

sIsBackendTrue ==
  <<"\"","i","s","_","b","a","c","k","e","n","d","\"",":","t","r","u","e">>

sIsAnonymousTrue ==
  <<"\"","i","s","_","a","n","o","n","y","m","o","u","s","\"",":","t","r","u","e">>

sTagHead ==
  <<"{","\"","j","o","b","\"",":","\"","G","r","a","f","a","n","a","\"",",",
    "\"","o","r","g","_","i","d","\"",":">>

\* C6: queryTagFromContext puts every identity context into exactly one of three
\* shapes. Without a user the tag is a backend tag with name, login, email and role
\* empty; with a user whose name, login and email are all empty it is an anonymous
\* tag that still carries the role; otherwise neither flag is set and name, login,
\* email and role are copied. The two flags are never both set, job is "Grafana"
\* and org_id is the context's organization id; the serialized tag shows the flags
\* the same way.
C6_TagShapes ==
  RanQueryTag =>
    LET pc == req.PluginContext
        q  == queryTagData(pc)
        noUser == pc.User = Nil
        anon == ~noUser /\ pc.User[1].Name = <<>> /\ pc.User[1].Login = <<>>
                        /\ pc.User[1].Email = <<>>
    IN /\ out.err = NoError
       /\ q.Job = sGrafana /\ q.OrgId = pc.OrgID
       /\ ~(q.IsBackend /\ q.IsAnonymous)
       /\ noUser => /\ q.IsBackend /\ ~q.IsAnonymous
                    /\ q.UserName = <<>> /\ q.UserLogin = <<>>
                    /\ q.UserEmail = <<>> /\ q.UserRole = <<>>
       /\ anon => /\ q.IsAnonymous /\ ~q.IsBackend
                  /\ q.UserRole = pc.User[1].Role
                  /\ q.UserName = <<>> /\ q.UserLogin = <<>> /\ q.UserEmail = <<>>
       /\ (~noUser /\ ~anon) =>
                  /\ ~q.IsAnonymous /\ ~q.IsBackend
                  /\ q.UserName = pc.User[1].Name /\ q.UserLogin = pc.User[1].Login
                  /\ q.UserEmail = pc.User[1].Email /\ q.UserRole = pc.User[1].Role
       /\ Contains(out.tag, sIsBackendTrue) <=> noUser
       /\ Contains(out.tag, sIsAnonymousTrue) <=> anon
       /\ HasPrefix(out.tag, sTagHead \o Itoa(pc.OrgID))
       /\ out.tag[Len(sTagHead \o Itoa(pc.OrgID)) + 1] \in {",", "}"}
       /\ out.tag[Len(out.tag)] = "}"

\* An anonymous user that has a role was tagged.
C6_Witness ==
  /\ RanQueryTag
  /\ req.PluginContext.User = <<UserWithRole(sAdmin)>>
  /\ Contains(out.tag, sIsAnonymousTrue)
  /\ Contains(out.tag, <<"\"","u","s","e","r","_","r","o","l","e","\"",":","\"","A","d","m","i","n","\"">>)

(* ------------------------------------------------------------------ *)
(* C7: the keys of the parameter segment                               *)
(* ------------------------------------------------------------------ *)

\* The keys getConnectionString is to emit, in order.
ExpectedKeys(privateKey, queryTag) ==
  (IF queryTag # <<>> THEN <<kQueryTag>> ELSE <<>>)
  \o (IF privateKey # <<>> THEN <<kAuth>> ELSE <<>>)
  \o <<kDatabase>>
  \o (IF privateKey # <<>> THEN <<kPrivateKey>> ELSE <<>>)
  \o <<kRole, kSchema, kWarehouse>>

\* C7: the parameter segment of getConnectionString's descriptor holds, each
\* exactly once and in the fixed order QUERY_TAG, authenticator, database,
\* privateKey, role, schema, warehouse, the keys role, warehouse, database and
\* schema (also when their values are empty), QUERY_TAG exactly when the tag is
\* non-empty, authenticator and privateKey exactly when the private key is
\* non-empty, and no other key.
C7_ParameterKeys ==
  RanGetConnectionString =>
    KeysOf(CallSegment) = ExpectedKeys(ReqPrivateKey, out.queryTag)

\* A descriptor was built with a private key, a tag and an empty role: all seven
\* keys are there.
C7_Witness ==
  /\ RanGetConnectionString
  /\ ReqPrivateKey # <<>>
  /\ out.queryTag # <<>>
  /\ out.config.Role = <<>>
  /\ Len(KeysOf(CallSegment)) = 7

(* ------------------------------------------------------------------ *)
(* C5: the private key takes precedence                                *)
(* ------------------------------------------------------------------ *)

\* C5: when the private key is non-empty the parameters carry
\* authenticator=SNOWFLAKE_JWT and privateKey=<the key>, and the credential prefix
\* is the escaped user name alone, without ':' and without the password, whatever
\* the password is; when the private key is empty the parameters have neither
\* authenticator nor privateKey and the prefix is user name, ':' and password.
C5_PrivateKeyPrecedence ==
  RanGetConnectionString =>
    LET prefix == PrefixOf(out.conn)
        keys   == Range(KeysOf(CallSegment))
        colon  == FirstIndex(prefix, ":")
    IN /\ WellEscaped(prefix)
       /\ ReqPrivateKey # <<>> =>
            /\ kAuth \in keys /\ ValueOf(CallSegment, kAuth) = sJWT
            /\ kPrivateKey \in keys
            /\ PercentDecode(ValueOf(CallSegment, kPrivateKey), TRUE) = ReqPrivateKey
            /\ colon = 0
            /\ PercentDecode(prefix, FALSE) = out.config.Username
       /\ ReqPrivateKey = <<>> =>
            /\ kAuth \notin keys /\ kPrivateKey \notin keys
            /\ Count(prefix, ":") = 1
            /\ PercentDecode(SubSeq(prefix, 1, colon - 1), FALSE) = out.config.Username
            /\ PercentDecode(SubSeq(prefix, colon + 1, Len(prefix)), FALSE) = ReqPassword

\* A descriptor was built from a private key and a non-empty password.
C5_Witness ==
  /\ RanGetConnectionString
  /\ ReqPrivateKey = sKey
  /\ ReqPassword = sPass
  /\ PrefixOf(out.conn) = sUser
  /\ kAuth \in Range(KeysOf(CallSegment))

(* ------------------------------------------------------------------ *)
(* C8: the two escapers                                                *)
(* ------------------------------------------------------------------ *)

\* C8: in password mode the credential prefix is the userinfo-escaped user name,
\* a ':' and the userinfo-escaped password: '@' and '/' never appear literally
\* (they are written %40 and %2F), while every '$' and '&' of the password is kept
\* as it is. The values of role, warehouse, database and schema are form-escaped,
\* which also encodes '@': ro@le is written ro%40le.
C8_CredentialEscaping ==
  (RanGetConnectionString /\ ReqPrivateKey = <<>>) =>
    LET prefix == PrefixOf(out.conn)
        colon  == FirstIndex(prefix, ":")
        user   == SubSeq(prefix, 1, colon - 1)
        pass   == SubSeq(prefix, colon + 1, Len(prefix))
        ps     == PairsOf(CallSegment)
        val(k) == ps[CHOOSE n \in 1..Len(ps) : ps[n][1] = k][2]
        role      == val(kRole)
        warehouse == val(kWarehouse)
        database  == val(kDatabase)
        schema    == val(kSchema)
    IN /\ colon > 0
       /\ WellEscaped(user) /\ WellEscaped(pass)
       /\ PercentDecode(user, FALSE) = out.config.Username
       /\ PercentDecode(pass, FALSE) = ReqPassword
       /\ Count(prefix, "@") = 0 /\ Count(prefix, "/") = 0
       /\ Cardinality({i \in 1..(Len(user) - 2) : SubSeq(user, i, i + 2) = <<"%","4","0">>})
            = Count(out.config.Username, "@")
       /\ Cardinality({i \in 1..(Len(pass) - 2) : SubSeq(pass, i, i + 2) = <<"%","4","0">>})
            = Count(ReqPassword, "@")
       /\ Cardinality({i \in 1..(Len(user) - 2) : SubSeq(user, i, i + 2) = <<"%","2","F">>})
            = Count(out.config.Username, "/")
       /\ Cardinality({i \in 1..(Len(pass) - 2) : SubSeq(pass, i, i + 2) = <<"%","2","F">>})
            = Count(ReqPassword, "/")
       /\ Count(pass, "$") = Count(ReqPassword, "$")
       /\ Count(pass, "&") = Count(ReqPassword, "&")
       /\ \A v \in {role, warehouse, database, schema} :
            Count(v, "@") = 0 /\ WellEscaped(v)
       /\ PercentDecode(role, TRUE) = out.config.Role
       /\ PercentDecode(warehouse, TRUE) = out.config.Warehouse
       /\ PercentDecode(database, TRUE) = out.config.Database
       /\ PercentDecode(schema, TRUE) = out.config.Schema
       /\ Cardinality({i \in 1..(Len(role) - 2) : SubSeq(role, i, i + 2) = <<"%","4","0">>})
            = Count(out.config.Role, "@")
       /\ out.config.Role = sAtRole => role = <<"r","o","%","4","0","l","e">>

\* A password holding '@', '$' was escaped into the prefix.
C8_Witness ==
  /\ RanGetConnectionString
  /\ ReqPrivateKey = <<>>
  /\ ReqPassword = <<"@", "$">>
  /\ PrefixOf(out.conn) = sUser \o <<":", "%", "4", "0", "$">>

(* ------------------------------------------------------------------ *)
(* C10: the first '@' separates credentials and account                *)
(* ------------------------------------------------------------------ *)

\* What precedes the first '@' of the descriptor is the whole credential prefix.
PrefixIsCredentials ==
  LET prefix == PrefixOf(out.conn)
      colon  == FirstIndex(prefix, ":")
  IN /\ FirstIndex(out.conn, "@") > 0
     /\ WellEscaped(prefix)
     /\ IF ReqPrivateKey # <<>>
        THEN PercentDecode(prefix, FALSE) = out.config.Username
        ELSE /\ colon > 0
             /\ PercentDecode(SubSeq(prefix, 1, colon - 1), FALSE) = out.config.Username
             /\ PercentDecode(SubSeq(prefix, colon + 1, Len(prefix)), FALSE) = ReqPassword

\* The text between the first '@' and the first '?' after it.
UpToQuestionMark ==
  LET at == FirstIndex(out.conn, "@")
  IN SubSeq(out.conn, at + 1, FirstIndexAfter(out.conn, "?", at) - 1)

\* C10 as stated: the first '@' ends the credential prefix and everything from
\* there to the first '?' after it is the account.
C10_AccountUpToQuestionMark ==
  RanGetConnectionString =>
    /\ PrefixIsCredentials
    /\ UpToQuestionMark = out.config.Account

\* C10, amended: for every user name, password and private key the credential
\* prefix has no literal '@', so the first '@' of the descriptor is the separator;
\* the account follows it unescaped and is followed by '?'. The text up to the
\* first '?' after the separator is the account when the account has no '?', and
\* otherwise only the part of the account before its first '?'.
C10_FirstAtIsSeparator ==
  RanGetConnectionString =>
    LET at == FirstIndex(out.conn, "@")
        account == out.config.Account
        q == FirstIndex(account, "?")
    IN /\ PrefixIsCredentials
       /\ SubSeq(out.conn, at + 1, at + Len(account)) = account
       /\ out.conn[at + Len(account) + 1] = "?"
       /\ q = 0 => UpToQuestionMark = account
       /\ q > 0 => UpToQuestionMark = SubSeq(account, 1, q - 1)

\* An account holding '@' was placed after the separator.
C10_Witness ==
  /\ RanGetConnectionString
  /\ out.config.Account = sAccount
  /\ UpToQuestionMark = sAccount

(* ------------------------------------------------------------------ *)
(* C4: extraConfig closes the descriptor                               *)
(* ------------------------------------------------------------------ *)

\* The validator returned a descriptor and no failure.
ValidatorSucceeded == RanValidator /\ out.result = Nil /\ out.err = NoError

\* C4 as stated: in every success case the descriptor ends with '&' and the
\* extraConfig string, with nothing after it.
C4_ExtraConfigIsLast ==
  /\ RanGetConnectionString => HasSuffix(out.conn, <<"&">> \o out.config.ExtraConfig)
  /\ ValidatorSucceeded => HasSuffix(out.conn, <<"&">> \o ReqExtra)

\* C4, amended: the descriptor getConnectionString returns ends with '&' and the
\* extraConfig string, verbatim, for every extraConfig including the empty one. The
\* validator's descriptor carries the same '&' and extraConfig, followed by
\* validateDefaultParameters=true, which a '&' separates from a non-empty
\* extraConfig.
C4_ExtraConfigVerbatim ==
  /\ RanGetConnectionString =>
       /\ HasSuffix(out.conn, <<"&">> \o ReqExtra)
       /\ out.config.ExtraConfig = ReqExtra
  /\ ValidatorSucceeded =>
       HasSuffix(out.conn,
                 <<"&">> \o ReqExtra \o (IF ReqExtra # <<>> THEN <<"&">> ELSE <<>>)
                   \o sValidateDefaultParameters)

\* A descriptor was built from an extraConfig that the form escaper would change.
C4_Witness ==
  /\ RanGetConnectionString
  /\ ReqExtra = <<"=", "&">>
  /\ HasSuffix(out.conn, <<"=", "&", "=", "&">>)

(* ------------------------------------------------------------------ *)
(* C3: the validator's success result                                  *)
(* ------------------------------------------------------------------ *)

\* The request passes every check of the validator.
RequestIsValid ==
  /\ ReqPassword # <<>> \/ ReqPrivateKey # <<>>
  /\ ReqDoc.kind = "object"
  /\ ReqAccount # <<>>
  /\ ReqUsername # <<>>

\* The configuration record the request's document stands for.
ReqConfig ==
  [Account |-> ReqAccount, Username |-> ReqUsername,
   Role |-> MemberOr(ReqDoc, "role"), Warehouse |-> MemberOr(ReqDoc, "warehouse"),
   Database |-> MemberOr(ReqDoc, "database"), Schema |-> MemberOr(ReqDoc, "schema"),
   ExtraConfig |-> ReqExtra]

\* The descriptor getConnectionString gives for the request.
AssembledForRequest ==
  getConnectionString(ReqConfig, ReqPassword, ReqPrivateKey,
                      queryTagFromContext(req.PluginContext).tag)

\* The request of the health-check test: backend context, org 0, account test,
\* user and pass, nothing else.
IsPlainRequest ==
  req = Request(0, Nil, ObjectDoc(BaseFields), BaseSecure, BaseQueries)

sPlainDescriptor ==
  <<"u","s","e","r",":","p","a","s","s","@","t","e","s","t","?","Q",
    "U","E","R","Y","_","T","A","G","=","%","7","B","%","2","2","j",
    "o","b","%","2","2","%","3","A","%","2","2","G","r","a","f","a",
    "n","a","%","2","2","%","2","C","%","2","2","o","r","g","_","i",
    "d","%","2","2","%","3","A","0","%","2","C","%","2","2","i","s",
    "_","b","a","c","k","e","n","d","%","2","2","%","3","A","t","r",
    "u","e","%","7","D","&","d","a","t","a","b","a","s","e","=","&",
    "r","o","l","e","=","&","s","c","h","e","m","a","=","&","w","a",
    "r","e","h","o","u","s","e","=","&","v","a","l","i","d","a","t",
    "e","D","e","f","a","u","l","t","P","a","r","a","m","e","t","e",
    "r","s","=","t","r","u","e">>

\* C3 as stated: on a valid request the validator returns no failure and a
\* descriptor equal to getConnectionString's output, which ends with
\* validateDefaultParameters=true.
C3_EqualsAssemblerOutput ==
  (RanValidator /\ RequestIsValid) =>
    /\ out.result = Nil
    /\ out.conn = AssembledForRequest
    /\ HasSuffix(out.conn, sValidateDefaultParameters)

\* C3, amended: on every request with a non-empty password or private key, a
\* decodable configuration, a non-empty account and a non-empty user name, the
\* validator returns no failure and a descriptor that is getConnectionString's
\* output for the decoded configuration, the credentials and the tag of the
\* request's own context, followed by validateDefaultParameters=true (after a '&'
\* when extraConfig is non-empty). It carries a non-empty QUERY_TAG as its first
\* parameter and ends with validateDefaultParameters=true.
C3_ValidatorSuccess ==
  (RanValidator /\ RequestIsValid) =>
    LET seg == SubSeq(out.conn, FirstIndex(out.conn, "@") + Len(ReqAccount) + 2,
                      Len(out.conn))
        tag == ValueOf(seg, kQueryTag)
        decoded == PercentDecode(tag, TRUE)
    IN /\ out.result = Nil /\ out.err = NoError
       /\ out.conn = AssembledForRequest
                       \o (IF ReqExtra # <<>> THEN <<"&">> ELSE <<>>)
                       \o sValidateDefaultParameters
       /\ KeysOf(seg)[1] = kQueryTag
       /\ tag # <<>>
       /\ HasPrefix(decoded, sTagHead \o Itoa(req.PluginContext.OrgID))
       /\ (req.PluginContext.User = Nil) <=> Contains(decoded, sIsBackendTrue)
       /\ HasSuffix(out.conn, sValidateDefaultParameters)
       /\ IsPlainRequest => out.conn = sPlainDescriptor

\* The validator succeeded on the request of the health-check test.
C3_Witness ==
  /\ ValidatorSucceeded
  /\ IsPlainRequest
  /\ out.conn = sPlainDescriptor

(* ------------------------------------------------------------------ *)
(* C1: the order of the validator's checks                             *)
(* ------------------------------------------------------------------ *)

Failure(msg) == <<[Status |-> HealthStatusError, Message |-> msg]>>

\* The message of the first check the request fails, "" when it passes all.
FirstFailure ==
  IF ReqPassword = <<>> /\ ReqPrivateKey = <<>>
    THEN "Password or private key are required."
  ELSE IF ReqDoc.kind \in {"nil", "truncated"}
    THEN "Error getting config: unexpected end of JSON input"
  ELSE IF ReqDoc.kind = "garbage"
    THEN "Error getting config: invalid character 'x' looking for beginning of value"
  ELSE IF ReqAccount = <<>> THEN "Account not provided"
  ELSE IF ReqUsername = <<>> THEN "Username not provided"
  ELSE ""

\* C1: the validator checks credential presence, then decodes the configuration,
\* then checks the account, then the user name, and stops at the first failure: the
\* message returned is that of the earliest failing check. With password and
\* private key both empty the result is always the error status with
\* "Password or private key are required.", whatever the configuration bytes are.
C1_FirstFailureWins ==
  RanValidator =>
    /\ FirstFailure # "" => out.result = Failure(FirstFailure) /\ out.conn = <<>>
    /\ FirstFailure = "" => out.result = Nil
    /\ (ReqPassword = <<>> /\ ReqPrivateKey = <<>>) =>
         out.result = Failure("Password or private key are required.")

\* A request without credentials and with malformed configuration was rejected for
\* its credentials.
C1_Witness ==
  /\ RanValidator
  /\ ReqPassword = <<>> /\ ReqPrivateKey = <<>>
  /\ ReqDoc.kind = "truncated"
  /\ out.result = Failure("Password or private key are required.")

(* ------------------------------------------------------------------ *)
(* C2: how failures are returned                                       *)
(* ------------------------------------------------------------------ *)

\* The request fails one of the input validations.
InputIsInvalid == ~RequestIsValid

\* C2 as stated: on every path that decodes the configuration an input-validation
\* failure never reaches the caller as a generic error.
C2_NeverGenericError ==
  ((RanValidator \/ RanQueryData) /\ InputIsInvalid) => out.err = NoError

\* C2, amended: the validator returns every input-validation failure (missing
\* credential, malformed configuration, missing account, missing user name) as a
\* result with the error status and a message, never as a generic error. QueryData
\* checks neither credentials nor account nor user name; it returns a generic
\* error, with no responses, exactly when the configuration bytes are malformed,
\* and that error is the decode error.
C2_FailureReporting ==
  /\ (RanValidator /\ InputIsInvalid) =>
       /\ out.err = NoError
       /\ out.result # Nil
       /\ out.result[1].Status = HealthStatusError
       /\ out.result[1].Message # ""
       /\ out.conn = <<>>
  /\ (RanValidator /\ ~InputIsInvalid) => out.err = NoError /\ out.result = Nil
  /\ RanQueryData =>
       /\ (out.err # NoError) <=> (ReqDoc.kind # "object")
       /\ ReqDoc.kind \in {"nil", "truncated"} => out.err = "unexpected end of JSON input"
       /\ ReqDoc.kind = "garbage"
            => out.err = "invalid character 'x' looking for beginning of value"
       /\ out.err # NoError => DOMAIN out.Responses = {}
       /\ out.err = NoError => DOMAIN out.Responses = {q.RefID : q \in Range(req.Queries)}

\* QueryData returned the decode error of malformed configuration bytes.
C2_Witness ==
  /\ RanQueryData
  /\ ReqDoc.kind = "truncated"
  /\ out.err = "unexpected end of JSON input"

(* ------------------------------------------------------------------ *)
(* Concurrent calls                                                    *)
(* ------------------------------------------------------------------ *)

\* The host serves several requests at once, each call on a goroutine of its own.
\* A call runs statement by statement; its local variables live in its frame.
Calls == 1..NumCalls

KindSeq == <<"createAndValidationConnectionString", "QueryData", "queryTagFromContext",
            "getConfig", "getConnectionString">>

\* Three requests that differ in credentials, configuration and identity.
ConcRequestSeq ==
  <<Request(1, <<NamedUser>>, ObjectDoc(FullFields), PasswordOnly(<<"p", "@">>),
            <<[RefID |-> "A"], [RefID |-> "B"]>>),
    Request(2, <<UserWithRole(sAdmin)>>, ObjectDoc(WithMember("extraConfig", sConf)),
            [k \in {"privateKey"} |-> sKey], BaseQueries),
    Request(0, Nil, [kind |-> "truncated", fields |-> EmptyMap], PasswordOnly(<<"$">>),
            BaseQueries)>>

\* Every way to start one call: an entry point and a request.
Starts ==
  [n \in 1..(Len(KindSeq) * Len(ConcRequestSeq)) |->
     [kind |-> KindSeq[((n - 1) \div Len(ConcRequestSeq)) + 1],
      req  |-> ConcRequestSeq[((n - 1) % Len(ConcRequestSeq)) + 1]]]

\* What a call returns; the fields a function does not return stay blank.
BlankRet ==
  [conn |-> <<>>, result |-> Nil, err |-> NoError, tag |-> <<>>,
   config |-> ZeroConfig, Responses |-> NewQueryDataResponse]

\* The local variables of a call before it has run.
BlankFrame ==
  [password |-> <<>>, privateKey |-> <<>>, config |-> ZeroConfig, queryTag |-> <<>>,
   Responses |-> NewQueryDataResponse, i |-> 1,
   qtd |-> queryTagData([OrgID |-> 0, User |-> Nil]),
   params |-> EmptyValues, userPass |-> <<>>]

\* The local variables, mutated: they are package-level variables that every call
\* shares.
FrameShared(c) == 1

\* The frame that holds the local variables of call c: every call has its own.
Frame(c) == c

InitConc ==
  /\ req = Request(0, Nil, ObjectDoc(BaseFields), BaseSecure, BaseQueries)
  /\ op = ""
  /\ out = BlankOut
  \* Calls are interchangeable, so one order of each multiset of starts is enough.
  /\ \E pick \in [Calls -> DOMAIN Starts] :
       /\ \A c \in Calls : c > 1 => pick[c - 1] <= pick[c]
       /\ calls = [c \in Calls |->
                    [kind |-> Starts[pick[c]].kind, req |-> Starts[pick[c]].req,
                     pc |-> "start", ret |-> BlankRet]]
  /\ frames = [f \in Calls |-> BlankFrame]
  /\ log = <<>>

At(c, kind, pc) == calls[c].kind = kind /\ calls[c].pc = pc

Local(c) == frames[Frame(c)]

Goto(c, pc) == calls' = [calls EXCEPT ![c].pc = pc]

ReturnFrom(c, ret) == calls' = [calls EXCEPT ![c].pc = "done", ![c].ret = ret]

SetLocal(c, f) == frames' = [frames EXCEPT ![Frame(c)] = f]

\* QueryData: create the response and read the two secrets.
QReadSecrets(c) ==
  /\ At(c, "QueryData", "start")
  /\ SetLocal(c, [Local(c) EXCEPT
                    !.Responses = NewQueryDataResponse,
                    !.password = Secret(calls[c].req, "password"),
                    !.privateKey = Secret(calls[c].req, "privateKey")])
  /\ Goto(c, "decode")
  /\ UNCHANGED <<req, op, out, log>>

\* QueryData: decode the configuration; on failure log and return the error.
QDecode(c) ==
  /\ At(c, "QueryData", "decode")
  /\ LET r == getConfig(Settings(calls[c].req))
     IN /\ SetLocal(c, [Local(c) EXCEPT !.config = r.config])
        /\ IF r.err # NoError
           THEN /\ log' = Append(log, "Could not get config for plugin")
                /\ ReturnFrom(c, [BlankRet EXCEPT !.Responses = Local(c).Responses,
                                                  !.err = r.err])
           ELSE /\ log' = log
                /\ Goto(c, "tag")
  /\ UNCHANGED <<req, op, out>>

\* QueryData: build the tag.
QTag(c) ==
  /\ At(c, "QueryData", "tag")
  /\ LET t == queryTagFromContext(calls[c].req.PluginContext)
     IN /\ SetLocal(c, [Local(c) EXCEPT !.queryTag = t.tag, !.i = 1])
        /\ IF t.err # NoError
           THEN ReturnFrom(c, [BlankRet EXCEPT !.Responses = Local(c).Responses,
                                               !.err = t.err])
           ELSE Goto(c, "loop")
  /\ UNCHANGED <<req, op, out, log>>

\* QueryData: run the next query and keep its response under its RefID.
QIterate(c) ==
  /\ At(c, "QueryData", "loop")
  /\ Local(c).i <= Len(calls[c].req.Queries)
  /\ LET f == Local(c)
     IN SetLocal(c, [f EXCEPT
                       !.Responses = QueryLoop(f.Responses, <<calls[c].req.Queries[f.i]>>,
                                               f.config, f.password, f.privateKey,
                                               f.queryTag),
                       !.i = f.i + 1])
  /\ UNCHANGED <<req, op, out, calls, log>>

\* QueryData: all queries ran; return the response.
QReturn(c) ==
  /\ At(c, "QueryData", "loop")
  /\ Local(c).i > Len(calls[c].req.Queries)
  /\ ReturnFrom(c, [BlankRet EXCEPT !.Responses = Local(c).Responses])
  /\ UNCHANGED <<req, op, out, frames, log>>

ValidatorFailure(msg) ==
  [BlankRet EXCEPT !.result = <<[Status |-> HealthStatusError, Message |-> msg]>>]

\* Validator: read the secrets and check that one is there.
VCheckCredentials(c) ==
  /\ At(c, "createAndValidationConnectionString", "start")
  /\ LET password   == Secret(calls[c].req, "password")
         privateKey == Secret(calls[c].req, "privateKey")
     IN /\ SetLocal(c, [Local(c) EXCEPT !.password = password,
                                        !.privateKey = privateKey])
        /\ IF password = <<>> /\ privateKey = <<>>
           THEN ReturnFrom(c, ValidatorFailure("Password or private key are required."))
           ELSE Goto(c, "decode")
  /\ UNCHANGED <<req, op, out, log>>

\* Validator: decode the configuration.
VDecode(c) ==
  /\ At(c, "createAndValidationConnectionString", "decode")
  /\ LET r == getConfig(Settings(calls[c].req))
     IN /\ SetLocal(c, [Local(c) EXCEPT !.config = r.config])
        /\ IF r.err # NoError
           THEN ReturnFrom(c, ValidatorFailure("Error getting config: " \o r.err))
           ELSE Goto(c, "fields")
  /\ UNCHANGED <<req, op, out, log>>

\* Validator: check account and user name.
VCheckFields(c) ==
  /\ At(c, "createAndValidationConnectionString", "fields")
  /\ IF Len(Local(c).config.Account) = 0
       THEN ReturnFrom(c, ValidatorFailure("Account not provided"))
     ELSE IF Len(Local(c).config.Username) = 0
       THEN ReturnFrom(c, ValidatorFailure("Username not provided"))
     ELSE Goto(c, "tag")
  /\ UNCHANGED <<req, op, out, frames, log>>

\* Validator: build the tag.
VTag(c) ==
  /\ At(c, "createAndValidationConnectionString", "tag")
  /\ LET t == queryTagFromContext(calls[c].req.PluginContext)
     IN /\ SetLocal(c, [Local(c) EXCEPT !.queryTag = t.tag])
        /\ IF t.err # NoError
           THEN ReturnFrom(c, [BlankRet EXCEPT !.err = t.err])
           ELSE Goto(c, "assemble")
  /\ UNCHANGED <<req, op, out, log>>

\* Validator: assemble the descriptor and return it.
VAssemble(c) ==
  /\ At(c, "createAndValidationConnectionString", "assemble")
  /\ LET f == Local(c)
     IN ReturnFrom(c, [BlankRet EXCEPT
          !.conn = getConnectionString(f.config, f.password, f.privateKey, f.queryTag)
                     \o (IF f.config.ExtraConfig # <<>> THEN <<"&">> ELSE <<>>)
                     \o sValidateDefaultParameters])
  /\ UNCHANGED <<req, op, out, frames, log>>

\* getConfig: decode into the local config.
GDecode(c) ==
  /\ At(c, "getConfig", "start")
  /\ SetLocal(c, [Local(c) EXCEPT !.config = getConfig(Settings(calls[c].req)).config])
  /\ Goto(c, "return")
  /\ UNCHANGED <<req, op, out, log>>

\* getConfig: return the local config and the error.
GReturn(c) ==
  /\ At(c, "getConfig", "return")
  /\ ReturnFrom(c, [BlankRet EXCEPT !.config = Local(c).config,
                                    !.err = getConfig(Settings(calls[c].req)).err])
  /\ UNCHANGED <<req, op, out, frames, log>>

\* queryTagFromContext: fill the tag record.
TBuild(c) ==
  /\ At(c, "queryTagFromContext", "start")
  /\ SetLocal(c, [Local(c) EXCEPT !.qtd = queryTagData(calls[c].req.PluginContext)])
  /\ Goto(c, "marshal")
  /\ UNCHANGED <<req, op, out, log>>

\* queryTagFromContext: marshal the tag record and return the string.
TMarshal(c) ==
  /\ At(c, "queryTagFromContext", "marshal")
  /\ ReturnFrom(c, [BlankRet EXCEPT !.tag = MarshalQueryTag(Local(c).qtd)])
  /\ UNCHANGED <<req, op, out, frames, log>>

\* The arguments of a direct call of getConnectionString for a request.
DirectConfig(r) == getConfig(Settings(r)).config

\* getConnectionString: build the parameters and the credential prefix.
SBuild(c) ==
  /\ At(c, "getConnectionString", "start")
  /\ LET r == calls[c].req
     IN SetLocal(c, [Local(c) EXCEPT
          !.params = ConnectionParams(DirectConfig(r), Secret(r, "privateKey"), sMyTag),
          !.userPass = userPass(DirectConfig(r), Secret(r, "password"),
                                Secret(r, "privateKey"))])
  /\ Goto(c, "format")
  /\ UNCHANGED <<req, op, out, log>>

\* getConnectionString: format the descriptor and return it.
SFormat(c) ==
  /\ At(c, "getConnectionString", "format")
  /\ LET r == calls[c].req
         f == Local(c)
     IN ReturnFrom(c, [BlankRet EXCEPT
          !.conn = f.userPass \o <<"@">> \o DirectConfig(r).Account \o <<"?">>
                     \o Encode(f.params) \o <<"&">> \o DirectConfig(r).ExtraConfig])
  /\ UNCHANGED <<req, op, out, frames, log>>

NextConc ==
  \E c \in Calls :
    \/ QReadSecrets(c)
    \/ QDecode(c)
    \/ QTag(c)
    \/ QIterate(c)
    \/ QReturn(c)
    \/ VCheckCredentials(c)
    \/ VDecode(c)
    \/ VCheckFields(c)
    \/ VTag(c)
    \/ VAssemble(c)
    \/ GDecode(c)
    \/ GReturn(c)
    \/ TBuild(c)
    \/ TMarshal(c)
    \/ SBuild(c)
    \/ SFormat(c)

SpecConc == InitConc /\ [][NextConc]_vars

(* ------------------------------------------------------------------ *)
(* C9: concurrent calls do not interfere                               *)
(* ------------------------------------------------------------------ *)

\* What the call returns when it runs alone on its request.
AloneResult(kind, r) ==
  CASE kind = "createAndValidationConnectionString" ->
         LET v == createAndValidationConnectionString(r)
         IN [BlankRet EXCEPT !.conn = v.conn, !.result = v.result, !.err = v.err]
    [] kind = "QueryData" ->
         LET v == QueryData(r)
         IN [BlankRet EXCEPT !.Responses = v.Responses, !.err = v.err]
    [] kind = "queryTagFromContext" ->
         LET v == queryTagFromContext(r.PluginContext)
         IN [BlankRet EXCEPT !.tag = v.tag, !.err = v.err]
    [] kind = "getConfig" ->
         LET v == getConfig(Settings(r))
         IN [BlankRet EXCEPT !.config = v.config, !.err = v.err]
    [] kind = "getConnectionString" ->
         [BlankRet EXCEPT !.conn =
            getConnectionString(DirectConfig(r), Secret(r, "password"),
                                Secret(r, "privateKey"), sMyTag)]

\* The QueryData calls that have logged their decode failure.
LoggedCalls ==
  {c \in Calls : /\ calls[c].kind = "QueryData"
                 /\ calls[c].pc = "done"
                 /\ calls[c].ret.err # NoError}

====
